---- MODULE Spec2Model ----
(***************************************************************************)
(* The websocket presence registry, the HTTP middleware pipeline and the   *)
(* process lifecycle of src/main.go (router.NewServer and main).           *)
(*                                                                         *)
(* Strings are sequences of one-character strings, so that strconv.Itoa,   *)
(* strings.Split and the "+" concatenations of the frames are computed.    *)
(*                                                                         *)
(* The callbacks run on melody (gopkg.in/olahol/melody.v1), whose          *)
(* HandleRequest, for each connection and in this order: registers the     *)
(* session with the hub, calls the connect callback, starts the pumps,     *)
(* calls the message callback once per frame read, and when the read pump  *)
(* returns unregisters the session, closes it and calls the disconnect     *)
(* callback. s.Write queues a frame for the session; BroadcastOthers hands *)
(* an envelope to the hub goroutine, which queues it for every registered  *)
(* session but the excluded one. The hub serves one request at a time, so  *)
(* its loop over the sessions is one step here.                            *)
(*                                                                         *)
(* A callback is split into steps at its lock.Lock(), at each session      *)
(* write or broadcast, and at its lock.Unlock(); statements between two of *)
(* these touch only what the mutex guards and are part of the same step.   *)
(***************************************************************************)
EXTENDS Integers, Sequences, FiniteSets, TLC

\* ------------------------------------------------------------- bounds
\* client frames read in one run
MaxMsgs == 2
\* client frames read in one run with failing transports
MaxFaultMsgs == 1
\* HTTP requests accepted in one run
MaxRequests == 3
\* client frames read in one run with fair scheduling
MaxLockMsgs == 1
\* client frames read in one run that draws them from Frames
MaxFrameMsgs == 2

\* the *melody.Session values, one per websocket connection of the run, named in
\* the order in which their upgrade requests arrive
Sessions == {"A", "B", "C"}
Arrival == <<"A", "B", "C">>
None == "none"

\* the client frames the read pump can deliver
Payloads == { <<"5", " ", "7">>, <<>>, <<"5", " ", "7", " ", "9">> }

VARIABLES
  pc,          \* where each session's goroutine is (melody HandleRequest + callbacks)
  lock,        \* sync.Mutex: the session whose callback holds it, or None
  gophers,     \* map[*melody.Session]*GopherInfo
  counter,     \* the identity counter
  p,           \* HandleMessage's local p, per session
  todo,        \* HandleConnect's range loop: the keys still to visit, per session
  hubSessions, \* melody's hub: the sessions BroadcastOthers can reach
  hubMsg,      \* the envelope the hub goroutine has taken and not yet delivered, if any
  recv,        \* per session, the frames its client received over the open transport,
               \* each tagged with its writer
  broken,      \* the sessions whose transport fails every write
  msgsLeft,    \* client frames the run may still read
  scn,         \* progress of the run along Scenario, -1 once it left it
  msgIn,       \* HandleMessage's parameter msg, per session
  lastSet      \* per registry entry, the last "set" frame its updates broadcast, if any

wsvars ==
  <<pc, lock, gophers, counter, p, todo, hubSessions, hubMsg, recv, broken, msgsLeft, scn,
    msgIn, lastSet>>

VARIABLES
  isDev,       \* config.Config().IsDev(), read once when the server is built
  srv,         \* the lifecycle of the process
  graceOver,   \* the context of srv.Shutdown has reached its deadline
  req,         \* per request slot: its place in the middleware chain and its response
  panicLog,    \* panics the recovery middleware has caught and logged
  nreq,        \* requests accepted so far
  manager,     \* GetTLSConfig returned an autocert manager (manager != nil)
  listener     \* the two listener goroutines: the TLS server and the ACME challenge server

httpvars == <<isDev, srv, graceOver, req, panicLog, nreq, manager, listener>>

vars == <<wsvars, httpvars>>

\* ------------------------------------------------------------- strings
Digits == <<"0", "1", "2", "3", "4", "5", "6", "7", "8", "9">>

RECURSIVE Itoa(_)
Itoa(n) == IF n < 10 THEN <<Digits[n + 1]>> ELSE Itoa(n \div 10) \o <<Digits[(n % 10) + 1]>>

\* strings.Fields-like: the pieces between separators, empty pieces dropped
RECURSIVE SplitNonEmpty(_, _)
SplitNonEmpty(s, sep) ==
  IF s = <<>> THEN <<>>
  ELSE IF s[1] = sep THEN SplitNonEmpty(Tail(s), sep)
  ELSE LET n == CHOOSE k \in 2..(Len(s) + 1) :
                  /\ k = Len(s) + 1 \/ s[k] = sep
                  /\ \A j \in 1..(k - 1) : s[j] /= sep
       IN  <<SubSeq(s, 1, n - 1)>> \o SplitNonEmpty(SubSeq(s, n + 1, Len(s)), sep)

RECURSIVE Split(_, _)
Split(s, sep) ==
  IF \E i \in 1..Len(s) : s[i] = sep
  THEN LET i == CHOOSE k \in 1..Len(s) : s[k] = sep /\ \A j \in 1..(k - 1) : s[j] /= sep
       IN  <<SubSeq(s, 1, i - 1)>> \o Split(SubSeq(s, i + 1, Len(s)), sep)
  ELSE <<s>>

GopherInfo(id, x, y) == [ID |-> id, X |-> x, Y |-> y]

SetFrameSwapped(info) ==
  <<"s", "e", "t", " ">> \o info.ID \o <<" ">> \o info.Y \o <<" ">> \o info.X
SetFrame(info) == <<"s", "e", "t", " ">> \o info.ID \o <<" ">> \o info.X \o <<" ">> \o info.Y
IamFrame(id) == <<"i", "a", "m", " ">> \o id
DisFrame(id) == <<"d", "i", "s", " ">> \o id

\* ------------------------------------------------------------- melody
\* s.Write(msg): the frame reaches the client unless the transport of s fails;
\* the error is returned to the caller, which drops it.
SessionWrite(rcv, s, by, msg) ==
  IF s \in broken THEN rcv ELSE [rcv EXCEPT ![s] = Append(@, [by |-> by, msg |-> msg])]

\* the sessions an envelope of BroadcastOthers(msg, s) is written to
OthersOfAll(s) == hubSessions
OthersOf(s) == hubSessions \ {s}

\* the hub's loop over its sessions for one envelope: one write per session, each
\* independent of the others
HubWriteUntilError(rcv, env) ==
  IF OthersOf(env.except) \cap broken /= {} THEN rcv
  ELSE [t \in Sessions |->
          IF t \in OthersOf(env.except)
          THEN Append(rcv[t], [by |-> "hub", msg |-> env.msg]) ELSE rcv[t]]
HubWrite(rcv, env) ==
  [t \in Sessions |->
     IF t \in OthersOf(env.except) THEN SessionWrite(rcv, t, "hub", env.msg)[t] ELSE rcv[t]]

\* lock.Lock() returns only when nobody holds the mutex
CanLockAlways(s) == TRUE
CanLock(s) == lock = None

\* delete(gophers, s)
DeleteNothing(m, s) == m
Delete(m, s) == [t \in DOMAIN m \ {s} |-> m[t]]

\* counter++
NextCounterStuck(c) == c
NextCounter(c) == c + 1

\* len(p) == 2
WellFormedAtLeast(q) == Len(q) >= 2
WellFormed(q) == Len(q) = 2

\* ------------------------------------------------------------- scenario monitor
Event(op, s, m) == [op |-> op, s |-> s, m |-> m]

Scenario ==
  << Event("connect", "A", <<>>), Event("connect", "B", <<>>),
     Event("msg", "A", <<"5", " ", "7">>), Event("close", "A", <<>>) >>

Quiescent == hubMsg = <<>> /\ \A s \in Sessions : pc[s] \in {"idle", "open", "gone"}

Observe(ev) ==
  IF scn >= 0 /\ scn < Len(Scenario) /\ Quiescent /\ broken = {} /\ ev = Scenario[scn + 1]
  THEN scn + 1 ELSE -1

\* ------------------------------------------------------------- initial state
InitWs(budget) ==
  /\ pc = [s \in Sessions |-> "idle"]
  /\ lock = None
  /\ gophers = <<>>
  /\ counter = 0
  /\ p = [s \in Sessions |-> <<>>]
  /\ todo = [s \in Sessions |-> {}]
  /\ hubSessions = {}
  /\ hubMsg = <<>>
  /\ recv = [s \in Sessions |-> <<>>]
  /\ broken = {}
  /\ msgsLeft = budget
  /\ scn = 0
  /\ msgIn = [s \in Sessions |-> <<>>]
  /\ lastSet = [s \in Sessions |-> <<>>]

\* ------------------------------------------------------------- /ws: connect
\* mrouter.HandleRequest: upgrade, register with the hub, then the connect callback
HandleRequest(s) ==
  /\ pc[s] = "idle"
  /\ \A i \in 1..Len(Arrival) : Arrival[i] = s => \A j \in 1..(i - 1) : pc[Arrival[j]] /= "idle"
  /\ hubMsg = <<>>
  /\ hubSessions' = hubSessions \cup {s}
  /\ pc' = [pc EXCEPT ![s] = "c_lock"]
  /\ scn' = Observe(Event("connect", s, <<>>))
  /\ UNCHANGED <<lock, gophers, counter, p, todo, hubMsg, recv, broken, msgsLeft, msgIn, lastSet>>
  /\ UNCHANGED httpvars

\* lock.Lock(), and the range loop starts over the map as it is
ConnectLock(s) ==
  /\ pc[s] = "c_lock"
  /\ CanLock(s)
  /\ lock' = s
  /\ todo' = [todo EXCEPT ![s] = DOMAIN gophers]
  /\ pc' = [pc EXCEPT ![s] = "c_snap"]
  /\ UNCHANGED <<gophers, counter, p, hubSessions, hubMsg, recv, broken, msgsLeft, scn, msgIn, lastSet>>
  /\ UNCHANGED httpvars

\* one turn of "for _, info := range gophers { s.Write(set ...) }", in any order
ConnectSnapshot(s) ==
  /\ pc[s] = "c_snap"
  /\ \E k \in todo[s] \cap DOMAIN gophers :
       /\ recv' = SessionWrite(recv, s, "snap", SetFrame(gophers[k]))
       /\ todo' = [todo EXCEPT ![s] = (@ \cap DOMAIN gophers) \ {k}]
  /\ UNCHANGED <<pc, lock, gophers, counter, p, hubSessions, hubMsg, broken, msgsLeft, scn, msgIn, lastSet>>
  /\ UNCHANGED httpvars

\* the loop is over: gophers[s] = &GopherInfo{strconv.Itoa(counter), "0", "0"}
ConnectInsert(s) ==
  /\ pc[s] = "c_snap"
  /\ todo[s] \cap DOMAIN gophers = {}
  /\ gophers' = [t \in DOMAIN gophers \cup {s} |->
                   IF t = s THEN GopherInfo(Itoa(counter), <<"0">>, <<"0">>) ELSE gophers[t]]
  /\ todo' = [todo EXCEPT ![s] = {}]
  /\ pc' = [pc EXCEPT ![s] = "c_iam"]
  /\ UNCHANGED <<lock, counter, p, hubSessions, hubMsg, recv, broken, msgsLeft, scn, msgIn, lastSet>>
  /\ UNCHANGED httpvars

\* s.Write("iam " + gophers[s].ID); counter++; lock.Unlock(); the callback returns
\* and the pumps of the session start
ConnectIam(s) ==
  /\ pc[s] = "c_iam"
  /\ IF s \in DOMAIN gophers
     THEN /\ recv' = SessionWrite(recv, s, "iam", IamFrame(gophers[s].ID))
          /\ counter' = NextCounter(counter)
          /\ lock' = None
          /\ pc' = [pc EXCEPT ![s] = "open"]
     ELSE /\ pc' = [pc EXCEPT ![s] = "panic"]
          /\ UNCHANGED <<recv, counter, lock>>
  /\ UNCHANGED <<gophers, p, todo, hubSessions, hubMsg, broken, msgsLeft, scn, msgIn, lastSet>>
  /\ UNCHANGED httpvars

\* ------------------------------------------------------------- /ws: message
\* the read pump hands a frame to the callback: p := strings.Split(string(msg), " ")
MessageSplit(s, m) ==
  /\ pc[s] = "open"
  /\ msgsLeft > 0
  /\ msgsLeft' = msgsLeft - 1
  /\ msgIn' = [msgIn EXCEPT ![s] = m]
  /\ p' = [p EXCEPT ![s] = Split(m, " ")]
  /\ pc' = [pc EXCEPT ![s] = "m_lock"]
  /\ scn' = Observe(Event("msg", s, m))
  /\ UNCHANGED <<lock, gophers, counter, todo, hubSessions, hubMsg, recv, broken, lastSet>>
  /\ UNCHANGED httpvars

\* lock.Lock(); info := gophers[s]; if len(p) == 2 { info.X = p[0]; info.Y = p[1]
MessageLock(s) ==
  /\ pc[s] = "m_lock"
  /\ CanLock(s)
  /\ lock' = s
  /\ IF WellFormed(p[s])
     THEN IF s \in DOMAIN gophers
          THEN /\ gophers' = [gophers EXCEPT ![s].X = p[s][1], ![s].Y = p[s][2]]
               /\ pc' = [pc EXCEPT ![s] = "m_bcast"]
          ELSE /\ pc' = [pc EXCEPT ![s] = "panic"]
               /\ gophers' = gophers
     ELSE /\ pc' = [pc EXCEPT ![s] = "m_unlock"]
          /\ gophers' = gophers
  /\ UNCHANGED <<counter, p, todo, hubSessions, hubMsg, recv, broken, msgsLeft, scn, msgIn, lastSet>>
  /\ UNCHANGED httpvars

\* mrouter.BroadcastOthers("set "+info.ID+" "+info.X+" "+info.Y, s) } lock.Unlock():
\* the envelope is handed to the hub goroutine, which must be free to take it
MessageBroadcast(s) ==
  /\ pc[s] = "m_bcast"
  /\ hubMsg = <<>>
  /\ IF s \in DOMAIN gophers
     THEN /\ hubMsg' = <<[msg |-> SetFrame(gophers[s]), except |-> s]>>
          /\ lastSet' = [lastSet EXCEPT ![s] = SetFrame(gophers[s])]
          /\ lock' = None
          /\ p' = [p EXCEPT ![s] = <<>>]
          /\ msgIn' = [msgIn EXCEPT ![s] = <<>>]
          /\ pc' = [pc EXCEPT ![s] = "open"]
     ELSE /\ pc' = [pc EXCEPT ![s] = "panic"]
          /\ UNCHANGED <<hubMsg, lock, p, msgIn, lastSet>>
  /\ UNCHANGED <<gophers, counter, todo, hubSessions, recv, broken, msgsLeft, scn>>
  /\ UNCHANGED httpvars

\* len(p) /= 2, and the callback returns without lock.Unlock()
MessageReturnLocked(s) ==
  /\ pc[s] = "m_unlock"
  /\ p' = [p EXCEPT ![s] = <<>>]
  /\ msgIn' = [msgIn EXCEPT ![s] = <<>>]
  /\ pc' = [pc EXCEPT ![s] = "open"]
  /\ UNCHANGED <<lock, gophers, counter, todo, hubSessions, hubMsg, recv, broken, msgsLeft, scn,
                 lastSet>>
  /\ UNCHANGED httpvars

\* len(p) /= 2: lock.Unlock() and nothing else
MessageUnlock(s) ==
  /\ pc[s] = "m_unlock"
  /\ lock' = None
  /\ p' = [p EXCEPT ![s] = <<>>]
  /\ msgIn' = [msgIn EXCEPT ![s] = <<>>]
  /\ pc' = [pc EXCEPT ![s] = "open"]
  /\ UNCHANGED <<gophers, counter, todo, hubSessions, hubMsg, recv, broken, msgsLeft, scn, lastSet>>
  /\ UNCHANGED httpvars

\* ------------------------------------------------------------- /ws: disconnect
\* the transport closes: the read pump returns, HandleRequest unregisters the
\* session from the hub and closes it, then calls the disconnect callback
ReadPumpExit(s) ==
  /\ pc[s] = "open"
  /\ hubMsg = <<>>
  /\ hubSessions' = hubSessions \ {s}
  /\ pc' = [pc EXCEPT ![s] = "d_lock"]
  /\ recv' = [recv EXCEPT ![s] = <<>>]
  /\ scn' = Observe(Event("close", s, <<>>))
  /\ UNCHANGED <<lock, gophers, counter, p, todo, hubMsg, broken, msgsLeft, msgIn, lastSet>>
  /\ UNCHANGED httpvars

DisconnectLock(s) ==
  /\ pc[s] = "d_lock"
  /\ CanLock(s)
  /\ lock' = s
  /\ pc' = [pc EXCEPT ![s] = "d_bcast"]
  /\ UNCHANGED <<gophers, counter, p, todo, hubSessions, hubMsg, recv, broken, msgsLeft, scn, msgIn, lastSet>>
  /\ UNCHANGED httpvars

\* mrouter.BroadcastOthers("dis "+gophers[s].ID, s): a missing entry is a nil
\* pointer dereference, which leaves the callback with the mutex locked
DisconnectBroadcast(s) ==
  /\ pc[s] = "d_bcast"
  /\ IF s \in DOMAIN gophers
     THEN /\ hubMsg = <<>>
          /\ hubMsg' = <<[msg |-> DisFrame(gophers[s].ID), except |-> s]>>
          /\ pc' = [pc EXCEPT ![s] = "d_delete"]
     ELSE /\ pc' = [pc EXCEPT ![s] = "panic"]
          /\ UNCHANGED hubMsg
  /\ UNCHANGED <<lock, gophers, counter, p, todo, hubSessions, recv, broken, msgsLeft, scn, msgIn, lastSet>>
  /\ UNCHANGED httpvars

\* delete(gophers, s); lock.Unlock()
DisconnectDelete(s) ==
  /\ pc[s] = "d_delete"
  /\ gophers' = Delete(gophers, s)
  /\ lastSet' = [lastSet EXCEPT ![s] = <<>>]
  /\ lock' = None
  /\ pc' = [pc EXCEPT ![s] = "gone"]
  /\ UNCHANGED <<counter, p, todo, hubSessions, hubMsg, recv, broken, msgsLeft, scn, msgIn>>
  /\ UNCHANGED httpvars

\* ------------------------------------------------------------- hub and transport
\* the hub goroutine writes the envelope it took to every session it passes to
HubDeliver ==
  /\ hubMsg /= <<>>
  /\ recv' = HubWrite(recv, hubMsg[1])
  /\ hubMsg' = <<>>
  /\ UNCHANGED <<pc, lock, gophers, counter, p, todo, hubSessions, broken, msgsLeft, scn, msgIn, lastSet>>
  /\ UNCHANGED httpvars

\* the transport of a session starts failing its writes (a stale peer)
TransportBreak(s) ==
  /\ pc[s] \in {"c_lock", "open"}
  /\ s \notin broken
  /\ broken' = broken \cup {s}
  /\ scn' = -1
  /\ UNCHANGED <<pc, lock, gophers, counter, p, todo, hubSessions, hubMsg, recv, msgsLeft, msgIn, lastSet>>
  /\ UNCHANGED httpvars

\* ------------------------------------------------------------- HTTP pipeline
\* the connections the server handles at once
Requests == {1, 2}

\* the /api routes
Paths == {"/api/panic", "/api/health", "/api/"}

\* r.Use(logger), r.Use(recovery), r.Use(secureMiddleware.Handler): mux runs the
\* middlewares in the order they were added, the first one outermost
MiddlewaresNoRecovery == <<"logger", "secure">>
Middlewares == <<"logger", "recovery", "secure">>

NoRequest ==
  [phase |-> "idle", path |-> "", tls |-> FALSE, stack |-> <<>>, status |-> 0,
   panic |-> FALSE, after |-> 0]

InFlight == {r \in Requests : req[r].phase \in {"down", "up"}}

InitHttp ==
  /\ srv = "Starting"
  /\ graceOver = FALSE
  /\ req = [r \in Requests |-> NoRequest]
  /\ panicLog = 0
  /\ nreq = 0
  /\ listener = [tls |-> "launching", acme |-> "launching"]

\* the server as built in production mode, and as built in either mode
Init == InitWs(MaxMsgs) /\ InitHttp /\ isDev = FALSE /\ manager = TRUE
InitAnyMode == InitWs(MaxMsgs) /\ InitHttp /\ isDev \in BOOLEAN /\ manager \in BOOLEAN
InitFault == InitWs(MaxFaultMsgs) /\ InitHttp /\ isDev = FALSE /\ manager = TRUE

\* secure.Options{SSLRedirect: true, IsDevelopment: ...}: a plaintext request is
\* redirected unless the server runs in development mode
SecureRedirectsAlways(q) == ~q.tls
SecureRedirects(q) == ~isDev /\ ~q.tls

\* panicHandler: panic("Oh no !") before anything is written
PanicHandler(q) == [q EXCEPT !.panic = TRUE, !.phase = "up"]

\* HealthCheckHandler and handler: w.WriteHeader(http.StatusOK) and a body
OkHandler(q) == [q EXCEPT !.status = 200, !.phase = "up"]

\* api.HandleFunc(...): the handler of a path
RouteHandler(q) == IF q.path = "/api/panic" THEN PanicHandler(q) ELSE OkHandler(q)

\* the recovery middleware returns: a panic of the inner handlers is caught and
\* turned into a 500 response written to the end
RecoveryReturn(q) == IF q.panic THEN [q EXCEPT !.panic = FALSE, !.status = 500] ELSE q

\* go srv.ListenAndServeTLS("", "") fails to start: logger.Fatal ends the process
ListenFail ==
  /\ srv = "Starting"
  /\ listener' = [listener EXCEPT !.tls = "failed"]
  /\ srv' = "Stopped"
  /\ UNCHANGED <<isDev, manager, graceOver, req, panicLog, nreq>>
  /\ UNCHANGED wsvars

\* go srv.ListenAndServeTLS("", ""): the listener is up
Listen ==
  /\ srv = "Starting"
  /\ listener' = [listener EXCEPT !.tls = "up"]
  /\ srv' = "Serving"
  /\ UNCHANGED <<isDev, manager, graceOver, req, panicLog, nreq>>
  /\ UNCHANGED wsvars

\* the server accepts a request on a free connection and the router matches it
Accept(r, path, tls) ==
  /\ srv = "Serving"
  /\ req[r].phase \in {"idle", "done", "aborted"}
  /\ nreq < MaxRequests
  /\ nreq' = nreq + 1
  /\ req' = [req EXCEPT ![r] = [NoRequest EXCEPT !.phase = "down", !.path = path,
                                                 !.tls = tls, !.after = panicLog]]
  /\ UNCHANGED <<isDev, manager, listener, srv, graceOver, panicLog>>
  /\ UNCHANGED wsvars

\* the request enters the next middleware of the chain; the secure middleware
\* answers a redirect itself and does not call the next handler
MiddlewareEnter(r) ==
  /\ srv /= "Stopped"
  /\ req[r].phase = "down"
  /\ Len(req[r].stack) < Len(Middlewares)
  /\ LET m == Middlewares[Len(req[r].stack) + 1]
         q == [req[r] EXCEPT !.stack = Append(@, m)]
     IN  req' = [req EXCEPT ![r] =
                   IF m = "secure" /\ SecureRedirects(q)
                   THEN [q EXCEPT !.status = 301, !.phase = "up"]
                   ELSE q]
  /\ UNCHANGED <<isDev, manager, listener, srv, graceOver, panicLog, nreq>>
  /\ UNCHANGED wsvars

\* the innermost middleware calls the handler of the route
Serve(r) ==
  /\ srv /= "Stopped"
  /\ req[r].phase = "down"
  /\ Len(req[r].stack) = Len(Middlewares)
  /\ req' = [req EXCEPT ![r] = RouteHandler(@)]
  /\ UNCHANGED <<isDev, manager, listener, srv, graceOver, panicLog, nreq>>
  /\ UNCHANGED wsvars

\* the innermost middleware still running returns, or is unwound by a panic
MiddlewareReturn(r) ==
  /\ srv /= "Stopped"
  /\ req[r].phase = "up"
  /\ req[r].stack /= <<>>
  /\ LET n == Len(req[r].stack)
         m == req[r].stack[n]
         q == [req[r] EXCEPT !.stack = SubSeq(@, 1, n - 1)]
     IN  /\ req' = [req EXCEPT ![r] = IF m = "recovery" THEN RecoveryReturn(q) ELSE q]
         /\ panicLog' = IF m = "recovery" /\ q.panic THEN panicLog + 1 ELSE panicLog
  /\ UNCHANGED <<isDev, manager, listener, srv, graceOver, nreq>>
  /\ UNCHANGED wsvars

\* the chain has returned to net/http: the response is complete, or a panic that
\* nobody caught makes the server drop the connection of this request alone
Respond(r) ==
  /\ srv /= "Stopped"
  /\ req[r].phase = "up"
  /\ req[r].stack = <<>>
  /\ req' = [req EXCEPT ![r].phase = IF req[r].panic THEN "aborted" ELSE "done"]
  /\ UNCHANGED <<isDev, manager, listener, srv, graceOver, panicLog, nreq>>
  /\ UNCHANGED wsvars

\* main: <-c returns on SIGINT/SIGTERM and srv.Shutdown(ctx) closes the listeners
Signal ==
  /\ srv = "Serving"
  /\ listener' = [listener EXCEPT !.tls = "closed"]
  /\ srv' = "Draining"
  /\ UNCHANGED <<isDev, manager, graceOver, req, panicLog, nreq>>
  /\ UNCHANGED wsvars

\* context.WithTimeout(context.Background(), wait) expires
GraceTimeout ==
  /\ srv = "Draining"
  /\ ~graceOver
  /\ graceOver' = TRUE
  /\ UNCHANGED <<isDev, manager, listener, srv, req, panicLog, nreq>>
  /\ UNCHANGED wsvars

\* srv.Shutdown(ctx) returns once no connection is active or the context is done
ShutdownDoneNoDeadline == InFlight = {}
ShutdownDone == InFlight = {} \/ graceOver

\* srv.Shutdown(ctx) has returned: main logs and calls os.Exit(0)
ShutdownReturn ==
  /\ srv = "Draining"
  /\ ShutdownDone
  /\ srv' = "Stopped"
  /\ UNCHANGED <<isDev, manager, listener, graceOver, req, panicLog, nreq>>
  /\ UNCHANGED wsvars

\* srv.Shutdown has closed the listener: ListenAndServeTLS returns
\* http.ErrServerClosed in its goroutine, and logger.Fatal ends the process
ListenerExit ==
  /\ srv = "Draining"
  /\ srv' = "Stopped"
  /\ UNCHANGED <<isDev, manager, listener, graceOver, req, panicLog, nreq>>
  /\ UNCHANGED wsvars

\* the second goroutine of NewServer: in development mode or without a manager it
\* returns at once and no challenge listener is started
AcmeSkip ==
  /\ srv /= "Stopped"
  /\ listener.acme = "launching"
  /\ isDev \/ ~manager
  /\ listener' = [listener EXCEPT !.acme = "off"]
  /\ UNCHANGED <<isDev, manager, srv, graceOver, req, panicLog, nreq>>
  /\ UNCHANGED wsvars

\* http.ListenAndServe(port, manager.HTTPHandler(nil)): the challenge listener is up
AcmeListen ==
  /\ srv /= "Stopped"
  /\ listener.acme = "launching"
  /\ ~isDev /\ manager
  /\ listener' = [listener EXCEPT !.acme = "up"]
  /\ UNCHANGED <<isDev, manager, srv, graceOver, req, panicLog, nreq>>
  /\ UNCHANGED wsvars

\* http.ListenAndServe returns an error and the goroutine only records it
AcmeListenFailLogged ==
  /\ srv /= "Stopped"
  /\ listener.acme = "launching"
  /\ ~isDev /\ manager
  /\ listener' = [listener EXCEPT !.acme = "failed"]
  /\ UNCHANGED <<isDev, manager, srv, graceOver, req, panicLog, nreq>>
  /\ UNCHANGED wsvars

\* http.ListenAndServe returns an error: logger.Fatal ends the process
AcmeListenFail ==
  /\ srv /= "Stopped"
  /\ listener.acme = "launching"
  /\ ~isDev /\ manager
  /\ listener' = [listener EXCEPT !.acme = "failed"]
  /\ srv' = "Stopped"
  /\ UNCHANGED <<isDev, manager, graceOver, req, panicLog, nreq>>
  /\ UNCHANGED wsvars

NextHttp ==
  \/ Listen
  \/ ListenFail
  \/ AcmeSkip
  \/ AcmeListen
  \/ AcmeListenFail
  \/ \E r \in Requests, path \in Paths, tls \in BOOLEAN : Accept(r, path, tls)
  \/ \E r \in Requests : MiddlewareEnter(r)
  \/ \E r \in Requests : Serve(r)
  \/ \E r \in Requests : MiddlewareReturn(r)
  \/ \E r \in Requests : Respond(r)
  \/ Signal
  \/ GraceTimeout
  \/ ShutdownReturn
  \/ ListenerExit

SpecHttp == InitAnyMode /\ [][NextHttp]_vars

\* the lifecycle of the process, with requests for one route only, and with what
\* the scheduling guarantees once shutdown has begun: the timer of the shutdown
\* context fires, and srv.Shutdown, which polls the connections and selects on
\* ctx.Done(), returns once it can. Nothing makes a request in flight finish, and
\* nothing is assumed about when the listener goroutine gets to run.
LifecyclePaths == {"/api/health"}

NextLifecycle ==
  \/ Listen
  \/ ListenFail
  \/ AcmeSkip
  \/ AcmeListen
  \/ AcmeListenFail
  \/ \E r \in Requests, path \in LifecyclePaths, tls \in BOOLEAN : Accept(r, path, tls)
  \/ \E r \in Requests : MiddlewareEnter(r)
  \/ \E r \in Requests : Serve(r)
  \/ \E r \in Requests : MiddlewareReturn(r)
  \/ \E r \in Requests : Respond(r)
  \/ Signal
  \/ GraceTimeout
  \/ ShutdownReturn
  \/ ListenerExit

SpecLifecycle ==
  InitAnyMode /\ [][NextLifecycle]_vars /\ WF_vars(GraceTimeout) /\ WF_vars(ShutdownReturn)

\* ------------------------------------------------------------- specifications
Next ==
  \/ \E s \in Sessions : HandleRequest(s)
  \/ \E s \in Sessions : ConnectLock(s)
  \/ \E s \in Sessions : ConnectSnapshot(s)
  \/ \E s \in Sessions : ConnectInsert(s)
  \/ \E s \in Sessions : ConnectIam(s)
  \/ \E s \in Sessions, m \in Payloads : MessageSplit(s, m)
  \/ \E s \in Sessions : MessageLock(s)
  \/ \E s \in Sessions : MessageBroadcast(s)
  \/ \E s \in Sessions : MessageUnlock(s)
  \/ \E s \in Sessions : ReadPumpExit(s)
  \/ \E s \in Sessions : DisconnectLock(s)
  \/ \E s \in Sessions : DisconnectBroadcast(s)
  \/ \E s \in Sessions : DisconnectDelete(s)
  \/ HubDeliver

Spec == Init /\ [][Next]_vars

\* the same program with the scheduling of its goroutines: a callback that can
\* take its next step inside the critical section takes it, the hub goroutine
\* delivers the envelope it holds, and a callback blocked in lock.Lock() is not
\* passed over forever (sync.Mutex hands the mutex to a starving waiter). Clients
\* are not required to connect, send or close.
InitLock == InitWs(MaxLockMsgs) /\ InitHttp /\ isDev = FALSE /\ manager = TRUE

\* the callback of s takes its next step, whichever it is
CallbackStep(s) ==
  \/ ConnectLock(s) \/ ConnectSnapshot(s) \/ ConnectInsert(s) \/ ConnectIam(s)
  \/ MessageLock(s) \/ MessageBroadcast(s) \/ MessageUnlock(s)
  \/ DisconnectLock(s) \/ DisconnectBroadcast(s) \/ DisconnectDelete(s)

Fairness == WF_vars(HubDeliver) /\ \A s \in Sessions : SF_vars(CallbackStep(s))

\* one frame that is a position update and one that is not
LockPayloads == { <<"5", " ", "7">>, <<>> }

NextLock ==
  \/ \E s \in Sessions : HandleRequest(s)
  \/ \E s \in Sessions : ConnectLock(s)
  \/ \E s \in Sessions : ConnectSnapshot(s)
  \/ \E s \in Sessions : ConnectInsert(s)
  \/ \E s \in Sessions : ConnectIam(s)
  \/ \E s \in Sessions, m \in LockPayloads : MessageSplit(s, m)
  \/ \E s \in Sessions : MessageLock(s)
  \/ \E s \in Sessions : MessageBroadcast(s)
  \/ \E s \in Sessions : MessageUnlock(s)
  \/ \E s \in Sessions : ReadPumpExit(s)
  \/ \E s \in Sessions : DisconnectLock(s)
  \/ \E s \in Sessions : DisconnectBroadcast(s)
  \/ \E s \in Sessions : DisconnectDelete(s)
  \/ HubDeliver

SpecLock == InitLock /\ [][NextLock]_vars /\ Fairness

\* the same program with two connections and client frames of every shape: no
\* space, one space with a piece on both sides, on one side or on neither, and
\* two spaces, apart or together
FrameSessions == {"A", "B"}
Frames ==
  { <<"5", " ", "7">>, <<"7", " ", "5">>, <<" ", "7">>, <<"5", " ">>, <<" ">>,
    <<"5", " ", " ", "7">>, <<"5", " ", "7", " ", "9">>, <<"5", "7">>, <<>> }

InitFrames == InitWs(MaxFrameMsgs) /\ InitHttp /\ isDev = FALSE /\ manager = TRUE

NextFrames ==
  \/ \E s \in FrameSessions : HandleRequest(s)
  \/ \E s \in Sessions : ConnectLock(s)
  \/ \E s \in Sessions : ConnectSnapshot(s)
  \/ \E s \in Sessions : ConnectInsert(s)
  \/ \E s \in Sessions : ConnectIam(s)
  \/ \E s \in Sessions, m \in Frames : MessageSplit(s, m)
  \/ \E s \in Sessions : MessageLock(s)
  \/ \E s \in Sessions : MessageBroadcast(s)
  \/ \E s \in Sessions : MessageUnlock(s)
  \/ \E s \in Sessions : ReadPumpExit(s)
  \/ \E s \in Sessions : DisconnectLock(s)
  \/ \E s \in Sessions : DisconnectBroadcast(s)
  \/ \E s \in Sessions : DisconnectDelete(s)
  \/ HubDeliver

SpecFrames == InitFrames /\ [][NextFrames]_vars

\* the same program with peers whose transport fails
NextFault ==
  \/ Next
  \/ \E s \in Sessions : TransportBreak(s)

SpecFault == InitFault /\ [][NextFault]_vars

\* ------------------------------------------------------------- vocabulary of the claims
Range(f) == {f[i] : i \in DOMAIN f}

\* the frames a client received, and those a given writer wrote
Received(s) == [i \in 1..Len(recv[s]) |-> recv[s][i].msg]
FramesBy(s, by) == SelectSeq(recv[s], LAMBDA e : e.by = by)
Count(f, x) == Cardinality({i \in DOMAIN f : f[i] = x})

IsDis(f) == Len(f) >= 4 /\ SubSeq(f, 1, 4) = <<"d", "i", "s", " ">>
IsSet(f) == Len(f) >= 4 /\ SubSeq(f, 1, 4) = <<"s", "e", "t", " ">>

\* the identity a frame or an entry carries, as a number
IdNum(id) == CHOOSE n \in 0..(Cardinality(Sessions) + 1) : Itoa(n) = id

\* a callback between its lock.Lock() and its lock.Unlock()
CriticalPcs == {"c_snap", "c_iam", "m_bcast", "m_unlock", "d_bcast", "d_delete"}
\* a session whose connect callback has inserted it and whose disconnect callback
\* has not yet deleted it
InRegistryPcs ==
  {"c_iam", "open", "m_lock", "m_bcast", "m_unlock", "d_lock", "d_bcast", "d_delete"}
\* a session whose transport has closed
ClosedPcs == {"d_lock", "d_bcast", "d_delete", "gone"}
\* the registry entries whose transport is open
ConnectedPeers == {t \in DOMAIN gophers : pc[t] \notin ClosedPcs}

\* the hub goroutine delivers the envelope it holds
DeliverStep == hubMsg /= <<>> /\ hubMsg' = <<>>
HubFrame(env) == [by |-> "hub", msg |-> env.msg]

MutualExclusion == \A s \in Sessions : pc[s] \in CriticalPcs => lock = s
NoPanic == \A s \in Sessions : pc[s] /= "panic"
RegistryExact == DOMAIN gophers = {s \in Sessions : pc[s] \in InRegistryPcs}
DistinctIds ==
  \A s, t \in DOMAIN gophers : s /= t => gophers[s].ID /= gophers[t].ID

\* ------------------------------------------------------------- C1
\* C1: when the snapshot loop of a Connect is over (its entry just inserted, the
\* mutex still held), the "set" frames it wrote to the connecting session are
\* exactly one per other entry of the registry, each carrying that entry's
\* identity and position: none omitted, none twice, none for itself or for a
\* session that is not in the registry.
Thm_C1 ==
  \A s \in Sessions :
    pc[s] = "c_iam" =>
      LET snap == FramesBy(s, "snap")
          peers == DOMAIN gophers \ {s}
      IN  /\ Len(snap) = Cardinality(peers)
          /\ {snap[i].msg : i \in 1..Len(snap)} = {SetFrame(gophers[k]) : k \in peers}

\* a Connect that ran after a Disconnect and an update: one peer left, moved to 5 7
Wit_C1 ==
  \E s \in Sessions :
    /\ pc[s] = "c_iam"
    /\ Len(FramesBy(s, "snap")) = 1
    /\ \E t \in Sessions : pc[t] = "gone"
    /\ \E k \in DOMAIN gophers \ {s} : gophers[k].X = <<"5">>

\* ------------------------------------------------------------- C2
Inv_C2 ==
  /\ DistinctIds
  /\ \A s \in DOMAIN gophers :
       \E n \in 0..counter : Itoa(n) = gophers[s].ID /\ (n = counter => pc[s] = "c_iam")

Step_C2 ==
  /\ counter' >= counter
  /\ \A s \in Sessions :
       /\ (s \notin DOMAIN gophers /\ s \in DOMAIN gophers') =>
            /\ gophers'[s].ID = Itoa(counter)
            /\ \A t \in DOMAIN gophers : IdNum(gophers[t].ID) < counter
       /\ (s \in DOMAIN gophers /\ s \notin DOMAIN gophers') =>
            IdNum(gophers[s].ID) < counter

\* C2: the identities of the registry entries are pairwise distinct; a Connect is
\* given the value of the counter, which is above every identity in the registry
\* and never decreases; an identity leaves the registry below the counter, so no
\* later Connect is given it again.
Thm_C2 == []Inv_C2 /\ [][Step_C2]_vars

\* the third connection found the registry empty: both earlier identities were
\* released before it was given identity 2
Wit_C2 ==
  \E t \in Sessions :
    /\ pc[t] = "open"
    /\ gophers[t].ID = <<"2">>
    /\ FramesBy(t, "snap") = <<>>

\* ------------------------------------------------------------- C3
Inv_C3 ==
  \* a departure notice reaches a peer at most once
  /\ \A t \in Sessions : \A i, j \in 1..Len(recv[t]) :
       (IsDis(recv[t][i].msg) /\ recv[t][i].msg = recv[t][j].msg) => i = j
  \* between its broadcast and its removal a Disconnect holds the mutex
  /\ \A s \in Sessions : pc[s] \in {"d_bcast", "d_delete"} =>
       lock = s /\ \A t \in Sessions \ {s} : pc[t] \notin CriticalPcs
  \* the snapshot of a Connect holds no frame of a session whose Disconnect is over
  /\ \A s \in Sessions : pc[s] \in {"c_snap", "c_iam"} =>
       \A e \in Range(FramesBy(s, "snap")) :
         \E k \in DOMAIN gophers \ {s} : pc[k] /= "gone" /\ e.msg = SetFrame(gophers[k])

Step_C3 ==
  \* the Disconnect of s broadcasts "dis <id of s>" to the others
  /\ \A s \in Sessions : (pc[s] = "d_bcast" /\ pc'[s] = "d_delete") =>
       hubMsg' = <<[msg |-> <<"d", "i", "s", " ">> \o gophers[s].ID, except |-> s]>>
  \* nothing touches the registry between the broadcast and the removal
  /\ \A s \in Sessions : (pc[s] = "d_delete" /\ pc'[s] = "d_delete") =>
       gophers' = gophers /\ counter' = counter
  /\ \A s \in Sessions : (pc[s] = "d_delete" /\ pc'[s] = "gone") =>
       DOMAIN gophers' = DOMAIN gophers \ {s}
  \* the notice is delivered once to every other connected peer, not to the leaver
  /\ (DeliverStep /\ IsDis(hubMsg[1].msg)) =>
       /\ \A t \in ConnectedPeers \ {hubMsg[1].except} :
            /\ recv'[t] = Append(recv[t], HubFrame(hubMsg[1]))
            /\ Count(Received(t), hubMsg[1].msg) = 0
       /\ recv'[hubMsg[1].except] = recv[hubMsg[1].except]

\* C3: a Disconnect hands "dis <id>" to the hub and removes its entry inside one
\* critical section that no other callback enters; the hub delivers the notice
\* exactly once to every other connected peer and not to the leaver; no snapshot
\* taken afterwards holds a frame of the removed entry.
Thm_C3 == []Inv_C3 /\ [][Step_C3]_vars

\* two peers have each received the notice of the third one's departure
Wit_C3 ==
  \E s, t, u \in Sessions :
    /\ s /= t /\ t /= u /\ s /= u
    /\ pc[s] = "gone" /\ pc[t] = "open" /\ pc[u] = "open"
    /\ hubMsg = <<>>
    /\ \E f \in Range(Received(t)) :
         IsDis(f) /\ Count(Received(t), f) = 1 /\ Count(Received(u), f) = 1

\* ------------------------------------------------------------- C4
\* the registry and everything a client can see of it
Surface == <<gophers, counter, recv, hubMsg>>

Step_C4 ==
  /\ \A s \in Sessions :
       \* a payload that does not split into exactly two fields
       /\ (pc[s] = "m_lock" /\ pc'[s] /= "m_lock" /\ Len(p[s]) /= 2) =>
            pc'[s] = "m_unlock" /\ Surface' = Surface
       /\ (pc[s] = "m_unlock" /\ pc'[s] /= "m_unlock") =>
            Len(p[s]) /= 2 /\ pc'[s] = "open" /\ Surface' = Surface
       \* a payload of exactly two fields
       /\ (pc[s] = "m_lock" /\ pc'[s] /= "m_lock" /\ Len(p[s]) = 2) =>
            /\ pc'[s] = "m_bcast"
            /\ gophers' = [gophers EXCEPT ![s] = [ID |-> gophers[s].ID, X |-> p[s][1], Y |-> p[s][2]]]
            /\ <<counter, recv, hubMsg>>' = <<counter, recv, hubMsg>>
       /\ (pc[s] = "m_bcast" /\ pc'[s] /= "m_bcast") =>
            /\ hubMsg = <<>>
            /\ hubMsg' = <<[msg |-> <<"s", "e", "t", " ">> \o gophers[s].ID \o <<" ">>
                                     \o p[s][1] \o <<" ">> \o p[s][2],
                            except |-> s]>>
            /\ <<gophers, counter, recv>>' = <<gophers, counter, recv>>
  /\ (DeliverStep /\ IsSet(hubMsg[1].msg)) =>
       /\ \A t \in ConnectedPeers \ {hubMsg[1].except} :
            recv'[t] = Append(recv[t], HubFrame(hubMsg[1]))
       /\ recv'[hubMsg[1].except] = recv[hubMsg[1].except]
       /\ <<gophers, counter>>' = <<gophers, counter>>

\* C4: a message callback whose payload does not split into exactly two fields
\* changes no entry, not the counter, and sends nothing; one whose payload splits
\* into exactly two fields stores them as the sender's position and broadcasts one
\* "set <id> <x> <y>", which the hub delivers once to every other connected peer
\* and not to the sender.
Thm_C4 == [][Step_C4]_vars

\* the update of s reached both peers once and s not at all, while a three-field
\* payload is being dropped
Wit_C4 ==
  \E s, t, u \in Sessions :
    /\ s /= t /\ t /= u /\ s /= u
    /\ s \in DOMAIN gophers /\ gophers[s].X = <<"5">> /\ gophers[s].Y = <<"7">>
    /\ Count(Received(t), SetFrame(gophers[s])) = 1 /\ pc[t] = "open"
    /\ Count(FramesBy(u, "hub"), HubFrame([msg |-> SetFrame(gophers[s])])) = 1
    /\ FramesBy(s, "hub") = <<>>
    /\ pc[u] = "m_unlock" /\ Len(p[u]) = 3

\* ------------------------------------------------------------- C5
\* C5: the critical sections of the callbacks never overlap, no callback
\* dereferences a missing entry, the registry holds exactly the sessions whose
\* Connect has inserted them and whose Disconnect has not yet removed them, and no
\* two entries share an identity.
Thm_C5 == MutualExclusion /\ NoPanic /\ RegistryExact /\ DistinctIds

\* a Disconnect holds the mutex while a Connect and a message callback wait for it
Wit_C5 ==
  \E s, t, u \in Sessions :
    pc[s] = "d_delete" /\ pc[t] = "c_lock" /\ pc[u] = "m_lock" /\ Len(p[u]) = 2

\* ------------------------------------------------------------- C6
\* the callback of s is at a session write or a broadcast
WriteInProgress(s) ==
  \/ pc[s] = "c_snap" /\ todo[s] /= {}
  \/ pc[s] \in {"c_iam", "m_bcast", "d_bcast"}

\* C6: no session write (snapshot, "iam", the broadcasts of Disconnect and of the
\* position update) is in progress while the registry lock is held.
Claim_C6 == \A s \in Sessions : WriteInProgress(s) => lock /= s

\* ------------------------------------------------------------- C7
Inv_C7 == MutualExclusion /\ NoPanic /\ RegistryExact

Step_C7 ==
  \* a broadcast with failing peers reaches every other peer and leaves the
  \* registry and the callbacks alone
  /\ DeliverStep =>
       /\ \A t \in (ConnectedPeers \ {hubMsg[1].except}) \ broken :
            recv'[t] = Append(recv[t], HubFrame(hubMsg[1]))
       /\ \A t \in broken : recv'[t] = recv[t]
       /\ <<gophers, counter, lock, pc>>' = <<gophers, counter, lock, pc>>
  \* a Connect whose own session fails goes on as if the writes had succeeded
  /\ \A s \in broken :
       /\ (pc[s] = "c_snap" /\ todo'[s] /= todo[s]) =>
            /\ Cardinality(todo'[s]) = Cardinality(todo[s]) - 1
            /\ <<gophers, counter, lock, pc, recv>>' = <<gophers, counter, lock, pc, recv>>
       /\ (pc[s] = "c_snap" /\ pc'[s] /= "c_snap") =>
            /\ pc'[s] = "c_iam"
            /\ gophers'[s] = [ID |-> Itoa(counter), X |-> <<"0">>, Y |-> <<"0">>]
       /\ (pc[s] = "c_iam" /\ pc'[s] /= "c_iam") =>
            /\ pc'[s] = "open" /\ lock' = None /\ counter' = counter + 1
            /\ <<gophers, recv>>' = <<gophers, recv>>

\* C7: a write that fails on one peer loses that peer's frame only: the other
\* addressed peers receive theirs, the callback goes on to its Unlock, and the
\* entries, positions and counter are those of a run without the failure; no
\* callback panics.
Thm_C7 == []Inv_C7 /\ [][Step_C7]_vars

\* a peer whose every write failed is in the registry, and another peer has
\* received a broadcast that was addressed to both
Wit_C7 ==
  \E b, t \in Sessions :
    /\ b /= t
    /\ b \in broken /\ pc[b] = "open" /\ recv[b] = <<>> /\ b \in DOMAIN gophers
    /\ t \notin broken /\ pc[t] = "open"
    /\ hubMsg = <<>>
    /\ \E i \in 1..Len(recv[t]) : recv[t][i].by = "hub" /\ IsDis(recv[t][i].msg)
    /\ \E i \in 1..Len(recv[t]) :
         recv[t][i].by = "snap" /\ recv[t][i].msg = SetFrame(gophers[b])

\* ------------------------------------------------------------- C8
\* C8: every key of the session map is a session whose transport is open.
Claim_C8 == \A s \in DOMAIN gophers : pc[s] \notin ClosedPcs

\* ------------------------------------------------------------- C9
\* C9: after "A connects, B connects, A sends 5 7, A disconnects", each callback
\* run to its end before the next, A has received "iam 0" and nothing else while
\* it was connected, B has received "set 0 0 0", "iam 1", "set 0 5 7" and "dis 0"
\* and nothing else, and nobody else has received anything.
Thm_C9 ==
  /\ scn \in {2, 3} => Received("A") = << <<"i", "a", "m", " ", "0">> >>
  /\ scn = 4 => Received("A") = <<>> /\ pc["A"] /= "open"
  /\ scn >= 0 => Received("C") = <<>>
  /\ Quiescent =>
       /\ scn = 1 => Received("A") = << <<"i", "a", "m", " ", "0">> >> /\ Received("B") = <<>>
       /\ scn = 2 =>
            Received("B") = << <<"s", "e", "t", " ", "0", " ", "0", " ", "0">>,
                               <<"i", "a", "m", " ", "1">> >>
       /\ scn = 3 =>
            Received("B") = << <<"s", "e", "t", " ", "0", " ", "0", " ", "0">>,
                               <<"i", "a", "m", " ", "1">>,
                               <<"s", "e", "t", " ", "0", " ", "5", " ", "7">> >>
       /\ scn = 4 =>
            Received("B") = << <<"s", "e", "t", " ", "0", " ", "0", " ", "0">>,
                               <<"i", "a", "m", " ", "1">>,
                               <<"s", "e", "t", " ", "0", " ", "5", " ", "7">>,
                               <<"d", "i", "s", " ", "0">> >>

\* the whole scenario has run
Wit_C9 == scn = 4 /\ Quiescent /\ Len(recv["B"]) = 4

\* ------------------------------------------------------------- C10
Inv_C10 ==
  \A r \in Requests :
    \* no panic leaves the chain, and a panic in flight is inside the recovery
    /\ req[r].phase /= "aborted"
    /\ req[r].panic => \E i \in 1..Len(req[r].stack) : req[r].stack[i] = "recovery"
    /\ req[r].phase = "done" =>
         /\ ~req[r].panic
         \* the panicking request is answered with a complete error response
         /\ (req[r].path = "/api/panic" /\ req[r].status /= 301) => req[r].status = 500
         \* any other request is served, also after a panic
         /\ (req[r].path /= "/api/panic" /\ (req[r].tls \/ isDev)) => req[r].status = 200

Step_C10 ==
  \A r \in Requests :
    /\ (~req[r].panic /\ req'[r].panic) => srv' = srv
    /\ (req[r].panic /\ ~req'[r].panic) =>
         /\ srv' = srv
         /\ req'[r].status = 500
         /\ req'[r].phase = "up"
         /\ panicLog' = panicLog + 1

\* C10: a panic of a handler is caught by the recovery middleware, the request is
\* answered with a complete 500 response, the panic never leaves the middleware
\* chain and does not change the lifecycle state of the server, and a request
\* accepted afterwards is served with 200.
Thm_C10 == []Inv_C10 /\ [][Step_C10]_vars

\* a health check accepted after a recovered panic has been served, the server
\* still serving
Wit_C10 ==
  \E r, q \in Requests :
    /\ r /= q
    /\ srv = "Serving"
    /\ req[q].phase = "done" /\ req[q].path = "/api/panic" /\ req[q].status = 500
    /\ req[r].phase = "done" /\ req[r].path = "/api/health" /\ req[r].status = 200
    /\ req[r].after >= 1

\* ------------------------------------------------------------- C11
\* the interceptors in the order the claim gives them, the first one outermost
ClaimedOrder == <<"secure", "logger", "recovery">>

\* C11: the interceptors a matched request has entered so far are, outermost
\* first, security-headers, access-logger and panic-recovery, in this order and
\* for every request; the handler runs inside all three.
Claim_C11 ==
  \A r \in Requests :
    /\ Len(req[r].stack) <= Len(ClaimedOrder)
    /\ req[r].stack = SubSeq(ClaimedOrder, 1, Len(req[r].stack))

\* ------------------------------------------------------------- C12
\* the process exits through a listener goroutine's logger.Fatal on a launch failure
FatalLaunchExit == listener'.tls = "failed" \/ listener'.acme = "failed"

\* C12: once the termination signal is received no new request is accepted, and
\* the process exits from Draining only when no request is in flight or the grace
\* period has elapsed.
Claim_C12 ==
  [][ /\ srv = "Draining" => nreq' = nreq
      /\ (srv = "Draining" /\ srv' = "Stopped" /\ ~FatalLaunchExit) =>
           (InFlight = {} \/ graceOver) ]_vars

\* ------------------------------------------------------------- C13
\* the lifecycle steps of the chain, and those of a fatal listener failure
ChainSteps ==
  { <<"Starting", "Serving">>, <<"Serving", "Draining">>, <<"Draining", "Stopped">> }
FatalSteps == { <<"Starting", "Stopped">>, <<"Serving", "Stopped">> }

\* C13 as stated: the lifecycle only moves Starting -> Serving -> Draining ->
\* Stopped, Stopped is terminal, and once the signal is received the process
\* eventually reaches Stopped.
Claim_C13 ==
  /\ [][srv' /= srv => <<srv, srv'>> \in ChainSteps]_vars
  /\ [][srv = "Stopped" => vars' = vars]_vars
  /\ (srv = "Draining") ~> (srv = "Stopped")

\* C13 amended: the lifecycle only moves Starting -> Serving -> Draining ->
\* Stopped, except that a fatal listener failure takes it from Starting or Serving
\* straight to Stopped; Stopped is terminal; once the termination signal is
\* received the process eventually reaches Stopped, also when requests in flight
\* never finish.
Thm_C13 ==
  /\ [][srv' /= srv =>
          \/ <<srv, srv'>> \in ChainSteps
          \/ <<srv, srv'>> \in FatalSteps /\ FatalLaunchExit]_vars
  /\ [][srv = "Stopped" => vars' = vars]_vars
  /\ (srv = "Draining") ~> (srv = "Stopped")

\* the process has exited after the grace period with a request still in flight
Wit_C13 == srv = "Stopped" /\ graceOver /\ InFlight /= {} /\ listener.tls = "closed"

\* ------------------------------------------------------------- C14
Inv_C14 ==
  \* a listener that failed to launch has ended the process
  /\ (listener.tls = "failed" \/ listener.acme = "failed") => srv = "Stopped"
  \* while serving, the TLS listener is up and the challenge listener is up or
  \* being launched, unless the configuration asks for none
  /\ srv = "Serving" =>
       /\ listener.tls = "up"
       /\ listener.acme \in {"launching", "up", "off"}
       /\ listener.acme = "off" => (isDev \/ ~manager)

Step_C14 ==
  \* a failed listener is not launched again, and the process does not resume
  /\ listener.tls = "failed" => listener'.tls = "failed"
  /\ listener.acme = "failed" => listener'.acme = "failed"
  /\ srv = "Stopped" => srv' = "Stopped"
  \* a launch failure ends the process in the same step
  /\ (listener.tls /= "failed" /\ listener'.tls = "failed") => srv' = "Stopped"
  /\ (listener.acme /= "failed" /\ listener'.acme = "failed") => srv' = "Stopped"

\* C14: a launch failure of the TLS listener or of the challenge listener ends
\* the process at once, a failed listener is never launched again, and the
\* process is never serving with a required listener down.
Thm_C14 == []Inv_C14 /\ [][Step_C14]_vars

\* the challenge listener failed to launch while the TLS listener was already
\* serving a request, and the process has ended
Wit_C14 ==
  /\ srv = "Stopped" /\ listener.acme = "failed" /\ listener.tls = "up"
  /\ InFlight /= {}

\* ------------------------------------------------------------- C15
\* the request has passed every interceptor and its handler is called
HandlerCalled(r) ==
  /\ req[r].phase = "down"
  /\ Len(req[r].stack) = Len(Middlewares)
  /\ req'[r] /= req[r]

Inv_C15 ==
  \A r \in Requests :
    (req[r].phase = "done" /\ ~req[r].tls) =>
      IF isDev
      THEN req[r].status /= 301 /\ (req[r].path /= "/api/panic" => req[r].status = 200)
      ELSE req[r].status = 301

Step_C15 ==
  \A r \in Requests :
    \* with development mode off no handler is called for a plaintext request
    /\ HandlerCalled(r) => (req[r].tls \/ isDev)
    \* with development mode on the request passes the security interceptor
    /\ (isDev /\ req[r].phase = "down" /\ req'[r].phase = "up") => HandlerCalled(r)
    \* the redirect is the answer to a plaintext request with development mode off
    /\ (req[r].status /= 301 /\ req'[r].status = 301) =>
         ~isDev /\ ~req[r].tls /\ req[r].phase = "down" /\ req'[r].phase = "up"

\* C15: with development mode off a plaintext request is answered with a
\* redirect and its handler is never called; with development mode on it is
\* passed to its handler and answered by it.
Thm_C15 == []Inv_C15 /\ [][Step_C15]_vars

\* a plaintext request was redirected and a TLS request for the same route served
Wit_C15 ==
  \E r, q \in Requests :
    /\ ~isDev
    /\ req[r].phase = "done" /\ ~req[r].tls /\ req[r].status = 301
    /\ req[q].phase = "done" /\ req[q].tls /\ req[q].status = 200
    /\ req[r].path = req[q].path

\* ------------------------------------------------------------- C16
\* the Connect of s (the upgrade request or a step of its callback) takes a step
ConnectStep(s) ==
  /\ pc[s] \in {"idle", "c_lock", "c_snap", "c_iam"}
  /\ pc'[s] /= pc[s] \/ todo'[s] /= todo[s]

\* the identity a "set" or "dis" frame is about
FrameId(f) == Split(f, " ")[2]

Inv_C16 ==
  \A s \in Sessions :
    \* the snapshot frames of a session come before its "iam"
    /\ \A i, j \in 1..Len(recv[s]) :
         (recv[s][i].by = "snap" /\ recv[s][j].by = "iam") => i < j
    /\ Len(FramesBy(s, "iam")) <= 1
    \* no broadcast about a session reaches that session
    /\ s \in DOMAIN gophers =>
         \A e \in Range(FramesBy(s, "hub")) : FrameId(e.msg) /= gophers[s].ID
    /\ pc[s] \in ClosedPcs => recv[s] = <<>>

Step_C16 ==
  \A s \in Sessions :
    ConnectStep(s) =>
      \* nothing is sent to an existing peer, directly or through the hub
      /\ \A t \in Sessions \ {s} : recv'[t] = recv[t]
      /\ hubMsg' = hubMsg
      \* no existing entry changes
      /\ \A k \in DOMAIN gophers \ {s} : k \in DOMAIN gophers' /\ gophers'[k] = gophers[k]
      \* what the connecting session gets is a snapshot frame or its "iam"
      /\ \/ recv'[s] = recv[s]
         \/ /\ Len(recv'[s]) = Len(recv[s]) + 1
            /\ SubSeq(recv'[s], 1, Len(recv[s])) = recv[s]
            /\ recv'[s][Len(recv'[s])].by \in {"snap", "iam"}

\* C16: a Connect sends frames to the connecting session only and changes no
\* existing entry; the snapshot "set" frames of a session all come before its
\* "iam"; a session never receives the "set" of its own update nor the "dis" of
\* its own departure.
Thm_C16 == []Inv_C16 /\ [][Step_C16]_vars

\* s has moved and t was told, s was not; u connected afterwards with a snapshot
\* of both, and neither s nor t received anything more
Wit_C16 ==
  \E s, t, u \in Sessions :
    /\ s /= t /\ t /= u /\ s /= u
    /\ pc[s] = "open" /\ pc[t] = "open" /\ pc[u] = "open" /\ hubMsg = <<>>
    /\ gophers[s].X = <<"5">>
    /\ FramesBy(s, "hub") = <<>>
    /\ Len(FramesBy(t, "hub")) = 1
    /\ Len(FramesBy(u, "snap")) = 2 /\ FramesBy(u, "hub") = <<>>

\* ------------------------------------------------------------- C17
\* a callback blocked in lock.Lock()
WaitingPcs == {"c_lock", "m_lock", "d_lock"}

Inv_C17 ==
  \* the mutex is held only by a callback that is inside its critical section
  /\ lock /= None => pc[lock] \in CriticalPcs
  /\ \A s \in Sessions : pc[s] \in CriticalPcs => lock = s

Step_C17 ==
  \A s \in Sessions :
    \* a callback that leaves its critical section has released the mutex
    /\ (pc[s] \in CriticalPcs /\ pc'[s] \notin CriticalPcs) => (lock = s /\ lock' = None)
    \* and only the callback that takes the mutex enters its critical section
    /\ (pc[s] \in WaitingPcs /\ pc'[s] /= pc[s]) =>
         (lock = None /\ lock' = s /\ pc'[s] \in CriticalPcs)

\* C17: every callback that takes the registry lock releases it before it
\* returns, on every path; the lock is never held while no callback is inside its
\* critical section; every callback waiting for the lock eventually gets it.
Thm_C17 ==
  /\ []Inv_C17
  /\ [][Step_C17]_vars
  /\ \A s \in Sessions : (pc[s] \in WaitingPcs) ~> (lock = s)

\* a malformed message, a Connect and a Disconnect wait for the lock at once, the
\* first connection of the run holding it
Wit_C17 ==
  \E s, t, u \in Sessions :
    /\ pc[s] = "c_lock" /\ pc[t] = "m_lock" /\ Len(p[t]) /= 2 /\ pc[u] = "d_delete"
    /\ lock = u /\ gophers[u].ID = <<"0">>

\* ------------------------------------------------------------- C18
\* the "set" frame that carries the position stored for s
StoredFrame(s) ==
  <<"s", "e", "t", " ">> \o gophers[s].ID \o <<" ">> \o gophers[s].X \o <<" ">> \o gophers[s].Y
\* the "set" frame of the last update broadcast for s, or of the position a
\* Connect gives when there was none
LastFrame(s) ==
  IF lastSet[s] = <<>>
  THEN <<"s", "e", "t", " ">> \o gophers[s].ID \o <<" ", "0", " ", "0">>
  ELSE lastSet[s]

Inv_C18 ==
  \* outside the update that is storing a new one, the stored position is that of
  \* the last update broadcast, or ("0", "0") if there was none
  /\ \A s \in DOMAIN gophers : pc[s] /= "m_bcast" => StoredFrame(s) = LastFrame(s)
  \* the snapshot of a Connect carries, for each peer, that position
  /\ \A s \in Sessions : pc[s] \in {"c_snap", "c_iam"} =>
       \A e \in Range(FramesBy(s, "snap")) :
         \E k \in DOMAIN gophers \ {s} : e.msg = LastFrame(k)

Step_C18 ==
  \A s \in Sessions :
    \* a new entry is at ("0", "0")
    /\ (s \notin DOMAIN gophers /\ s \in DOMAIN gophers') =>
         gophers'[s].X = <<"0">> /\ gophers'[s].Y = <<"0">> /\ lastSet'[s] = <<>>
    \* an accepted update stores the two fields of its frame
    /\ (pc[s] = "m_lock" /\ pc'[s] = "m_bcast") =>
         gophers'[s].X \o <<" ">> \o gophers'[s].Y = msgIn[s]
    \* and nothing else changes a stored position
    /\ (s \in DOMAIN gophers /\ s \in DOMAIN gophers' /\ gophers'[s] /= gophers[s]) =>
         pc[s] = "m_lock" /\ pc'[s] = "m_bcast" /\ gophers'[s].ID = gophers[s].ID
    \* the update is broadcast as stored, before the mutex is released
    /\ (pc[s] = "m_bcast" /\ pc'[s] /= "m_bcast") =>
         /\ hubMsg' = <<[msg |-> StoredFrame(s), except |-> s]>>
         /\ lastSet'[s] = StoredFrame(s)
         /\ gophers' = gophers
    /\ (lastSet'[s] /= lastSet[s]) => pc[s] \in {"m_bcast", "d_delete"}

\* C18: the position stored for a connected session is ("0", "0") until it has
\* sent an accepted update and from then on the two fields of its most recent
\* accepted update; the "set" frame a later Connect receives for it in its
\* snapshot carries the position of the last update broadcast for it.
Thm_C18 == []Inv_C18 /\ [][Step_C18]_vars

\* B connected after the first update of A and has received its second one; a
\* Connect now would be sent the second position
Wit_C18 ==
  /\ "A" \in DOMAIN gophers
  /\ gophers["A"].X = <<"7">> /\ gophers["A"].Y = <<"5">>
  /\ lastSet["A"] = <<"s", "e", "t", " ", "0", " ", "7", " ", "5">>
  /\ \E i, j \in 1..Len(recv["B"]) :
       /\ i < j
       /\ recv["B"][i] = [by |-> "snap", msg |-> <<"s", "e", "t", " ", "0", " ", "5", " ", "7">>]
       /\ recv["B"][j] = [by |-> "hub", msg |-> <<"s", "e", "t", " ", "0", " ", "7", " ", "5">>]

\* ------------------------------------------------------------- C19
\* the places of the space character in a frame
Spaces(f) == {i \in 1..Len(f) : f[i] = " "}

Step_C19 ==
  \A s \in Sessions :
    \* the callback decides: the frame is a position update exactly when it holds
    \* exactly one space, and then what is before it and what is after it are
    \* stored as they are
    /\ (pc[s] = "m_lock" /\ pc'[s] /= "m_lock") =>
         IF Cardinality(Spaces(msgIn[s])) = 1
         THEN LET i == CHOOSE k \in Spaces(msgIn[s]) : TRUE
              IN  /\ pc'[s] = "m_bcast"
                  /\ gophers'[s].X = SubSeq(msgIn[s], 1, i - 1)
                  /\ gophers'[s].Y = SubSeq(msgIn[s], i + 1, Len(msgIn[s]))
                  /\ gophers'[s].ID = gophers[s].ID
         ELSE pc'[s] = "m_unlock" /\ gophers' = gophers
    \* an accepted frame is broadcast as it came, after "set <id> "
    /\ (pc[s] = "m_bcast" /\ pc'[s] /= "m_bcast") =>
         /\ Cardinality(Spaces(msgIn[s])) = 1
         /\ hubMsg' = <<[msg |-> <<"s", "e", "t", " ">> \o gophers[s].ID \o <<" ">> \o msgIn[s],
                         except |-> s]>>
    \* a dropped frame leaves no trace
    /\ (pc[s] = "m_unlock" /\ pc'[s] /= "m_unlock") =>
         /\ Cardinality(Spaces(msgIn[s])) /= 1
         /\ <<gophers, counter, recv, hubMsg>>' = <<gophers, counter, recv, hubMsg>>

\* C19: a client frame is taken as a position update exactly when it holds
\* exactly one space; the pieces on both sides of it, empty or not, numeric or
\* not, are stored and broadcast as they are; any other frame is dropped.
Thm_C19 == [][Step_C19]_vars

\* " 7" was accepted from A, stored with an empty X and broadcast to B, and
\* "5  7" from B is being dropped
Wit_C19 ==
  /\ "A" \in DOMAIN gophers
  /\ gophers["A"].X = <<>> /\ gophers["A"].Y = <<"7">>
  /\ \E i \in 1..Len(recv["B"]) :
       recv["B"][i] = [by |-> "hub", msg |-> <<"s", "e", "t", " ", "0", " ", " ", "7">>]
  /\ pc["B"] = "m_unlock" /\ msgIn["B"] = <<"5", " ", " ", "7">>

====
